---- MODULE Spec2Model ----
(***************************************************************************)
(* Model of the asynchronous crawler in src/spider/spider.py together with *)
(* the response parser of src/web/response.py and the URL helper of        *)
(* src/web/url.py.                                                         *)
(*                                                                         *)
(* The program runs on one asyncio event loop.  A coroutine runs without   *)
(* interruption until it awaits something that is not ready; callbacks     *)
(* scheduled with call_soon run in FIFO order, one batch per loop          *)
(* iteration, and network completions are appended to the ready list       *)
(* between two batches.  The model keeps that discipline: `ready` is the   *)
(* loop's ready list, `ntodo` the number of handles left in the current    *)
(* batch and `running` the coroutine that currently executes.  The gates   *)
(* and queues follow asyncio's Semaphore and Queue of CPython 3.11.        *)
(*                                                                         *)
(* Spider._record only sleeps, reads counters and logs; it changes nothing *)
(* and is left out.                                                        *)
(***************************************************************************)
EXTENDS Integers, Sequences, FiniteSets, TLC

(***************************************************************************)
(* Configuration.  MAX_WORKER and WORKER_DOMAIN are the class attributes   *)
(* of Spider (20 and 5 by default, meant to be overridden); they are       *)
(* scaled down so that both caps are reached with a handful of URLs.       *)
(***************************************************************************)
MAX_WORKER == 2

WORKER_DOMAIN == 1

\* how many add_task calls one handle_document invocation makes at most
MaxAddCalls == 1

\* how many times one handle_document invocation suspends at most
MaxHandlerAwaits == 1

(***************************************************************************)
(* URLs.  A URL string is represented by the parts urlsplit finds in it;   *)
(* a host is a sequence of characters so that the allow-list's substring   *)
(* test is computed, not assumed.                                          *)
(***************************************************************************)
HostAB == <<"a", "b">>

HostB == <<"b">>

HostC == <<"c">>

a1 == [host |-> HostAB, path |-> 1]

a2 == [host |-> HostAB, path |-> 2]

b1 == [host |-> HostB, path |-> 1]

c1 == [host |-> HostC, path |-> 1]

URLs == {a1, a2, b1, c1}

NoURL == [host |-> <<>>, path |-> 0]

\* URL(url).host
URLhost(url) == url.host

\* URL.md5_value: the digest of the raw string; distinct strings of the
\* model have distinct digests
md5_value(url) == <<"md5", url.host, url.path>>

\* Python's `domain in host` on strings
IsSubstring(d, h) ==
  \E i \in 0..(Len(h) - Len(d)) : SubSeq(h, i + 1, i + Len(d)) = d

\* Spider._check_domain
check_domain_any(allowed, url) == TRUE

check_domain(allowed, url) ==
  IF allowed = <<>> THEN TRUE
  ELSE \E k \in 1..Len(allowed) : IsSubstring(allowed[k], URLhost(url))

\* the runs that are explored: the allow-list the class is configured with
\* and the seed list start() is called with
Configs ==
  { [allowed |-> <<>>,      urls |-> <<>>],
    [allowed |-> <<HostB>>, urls |-> <<c1>>],
    [allowed |-> <<HostB>>, urls |-> <<b1, a1, a2, c1>>],
    [allowed |-> <<>>,      urls |-> <<a1, a1>>] }

\* the argument lists a handler passes to add_task
LinkLists == { <<a2, c1, a2>>, <<b1>> }

(***************************************************************************)
(* Coroutine identities: <<kind, index>>.                                  *)
(***************************************************************************)
NoProc == <<"none", 0>>

RunProc == <<"run", 0>>

CommitProc == <<"commit", 0>>

MonitorProc(i) == <<"monitor", i>>

FetchProc(i) == <<"fetch", i>>

Range(s) == { s[i] : i \in 1..Len(s) }

(***************************************************************************)
(* asyncio.Semaphore (the gates).  waiters holds one entry per pending     *)
(* acquire; an entry stays in the list, marked done, from the release that *)
(* hands it the permit until its coroutine resumes.                        *)
(***************************************************************************)
SemNew(v) == [value |-> v, waiters |-> <<>>]

SemLocked(s) == s.value = 0 \/ Len(s.waiters) > 0

SemWakeUpNext(s) ==
  LET idx == { i \in 1..Len(s.waiters) : ~s.waiters[i].done } IN
  IF idx = {} THEN [sem |-> s, wake |-> <<>>]
  ELSE LET i == CHOOSE j \in idx : \A k \in idx : j <= k IN
       [sem  |-> [value |-> s.value - 1,
                  waiters |-> [s.waiters EXCEPT ![i].done = TRUE]],
        wake |-> <<s.waiters[i].who>>]

SemRelease(s) == SemWakeUpNext([s EXCEPT !.value = @ + 1])

\* acquire() when the semaphore is locked: queue a waiter
SemEnqueue(s, p) ==
  [s EXCEPT !.waiters = Append(@, [who |-> p, done |-> FALSE])]

\* acquire() resumed: drop the own waiter, pass a spare permit on
SemResume(s, p) ==
  LET keep == SelectSeq(s.waiters, LAMBDA w : w.who # p)
      s1   == [s EXCEPT !.waiters = keep] IN
  IF s1.value > 0 THEN SemWakeUpNext(s1) ELSE [sem |-> s1, wake |-> <<>>]

(***************************************************************************)
(* asyncio.Queue (per-host URL queues and the record of running tasks).    *)
(***************************************************************************)
QueueNew ==
  [items |-> <<>>, getters |-> <<>>, unfinished |-> 0, finished |-> TRUE,
   joiners |-> <<>>]

\* put() on an unbounded queue never suspends: put_nowait; the item goes
\* to the end of the deque, get() takes from the front
QueuePut_front(q, item) ==
  [queue |-> [q EXCEPT !.items = <<item>> \o @,
                       !.unfinished = @ + 1,
                       !.finished = FALSE,
                       !.getters = IF @ = <<>> THEN @ ELSE Tail(@)],
   wake  |-> IF q.getters = <<>> THEN <<>> ELSE <<Head(q.getters)>>]

QueuePut(q, item) ==
  [queue |-> [q EXCEPT !.items = Append(@, item),
                       !.unfinished = @ + 1,
                       !.finished = FALSE,
                       !.getters = IF @ = <<>> THEN @ ELSE Tail(@)],
   wake  |-> IF q.getters = <<>> THEN <<>> ELSE <<Head(q.getters)>>]

\* task_done(): the last one sets the event and wakes every join()
QueueTaskDone(q) ==
  IF q.unfinished - 1 = 0
  THEN [queue |-> [q EXCEPT !.unfinished = 0, !.finished = TRUE,
                            !.joiners = <<>>],
        wake  |-> q.joiners]
  ELSE [queue |-> [q EXCEPT !.unfinished = @ - 1], wake |-> <<>>]

(***************************************************************************)
(* Spider.add_task.  No await in it suspends (the queues are unbounded),   *)
(* so the whole loop over urls is one uninterrupted computation.  S holds  *)
(* the parts of the state it touches: h = _handled_urls, q = _url_queue,   *)
(* w = _worker, m = the host monitors, r = the loop's ready list, a = the   *)
(* urls it has put into a queue so far, in the order of the puts.          *)
(***************************************************************************)
\* line 71: the digest is in _handled_urls
is_handled_never(hash_value, handled) == FALSE

is_handled(hash_value, handled) == hash_value \in handled

NewMonitor(host) == [host |-> host, pc |-> "get", url |-> NoURL]

\* line 76: `if self._url_queue.get(u.host)`; a Queue object is true
\* whatever it holds, so the test is whether the host has a queue
has_queue_nonempty(q, host) == host \in DOMAIN q /\ q[host].items # <<>>

has_queue(q, host) == host \in DOMAIN q

RECURSIVE add_task(_, _, _)
add_task(S, allowed, us) ==
  IF us = <<>> THEN S
  ELSE
    LET url  == Head(us)
        rest == Tail(us)
    IN
    IF ~check_domain(allowed, url) THEN add_task(S, allowed, rest)
    ELSE
      LET hash_value == md5_value(url) IN
      IF is_handled(hash_value, S.h) THEN add_task(S, allowed, rest)
      ELSE
        LET host == URLhost(url)
            S1   == [S EXCEPT !.h = @ \cup {hash_value},
                              !.a = Append(@, url)]
        IN
        IF has_queue(S1.q, host)
        THEN
          LET p == QueuePut(S1.q[host], url) IN
          add_task([S1 EXCEPT !.q[host] = p.queue, !.r = @ \o p.wake],
                   allowed, rest)
        ELSE
          LET p == QueuePut(QueueNew, url) IN
          add_task([S1 EXCEPT !.q = (host :> p.queue) @@ @,
                              !.w = (host :> SemNew(WORKER_DOMAIN)) @@ @,
                              !.m = Append(@, NewMonitor(host)),
                              !.r = Append(@, MonitorProc(Len(S1.m) + 1))],
                   allowed, rest)

VARIABLES
  ALLOWED_DOMAIN,  \* Spider.ALLOWED_DOMAIN
  urls,            \* the arguments of start()
  url_queue,       \* self._url_queue: host -> Queue
  work_position,   \* self._work_position: the global gate
  worker,          \* self._worker: host -> Semaphore
  handled_urls,    \* self._handled_urls
  admitted,        \* history: the urls add_task has queued, in that order
  running_task,    \* self._running_task: Queue of fetch tasks
  completed,       \* self._completed
  start,           \* self._start: TRUE when the future is done
  run,             \* position of _run
  commit,          \* position of _commit_task and the task it awaits
  monitor,         \* the _task_monitor tasks, in creation order
  task,            \* the _download_document tasks, in creation order
  ready,           \* the event loop's ready list
  ntodo,           \* handles left in the current loop iteration
  running          \* the coroutine that executes now

vars == <<ALLOWED_DOMAIN, urls, url_queue, work_position, worker,
          handled_urls, admitted, running_task, completed, start, run,
          commit, monitor, task, ready, ntodo, running>>

config == <<ALLOWED_DOMAIN, urls>>

\* Spider.__init__; _run has been handed to asyncio.run and is the only
\* handle of the first loop iteration
Init ==
  /\ \E c \in Configs : ALLOWED_DOMAIN = c.allowed /\ urls = c.urls
  /\ url_queue = <<>>
  /\ work_position = SemNew(0)
  /\ worker = <<>>
  /\ handled_urls = {}
  /\ admitted = <<>>
  /\ running_task = QueueNew
  /\ completed = 0
  /\ start = FALSE
  /\ run = "init"
  /\ commit = [pc |-> "get", task |-> 0]
  /\ monitor = <<>>
  /\ task = <<>>
  /\ ready = <<RunProc>>
  /\ ntodo = 1
  /\ running = NoProc

\* asyncio.run returned: the loop is closed, nothing runs any more
Returned == run = "returned"

(***************************************************************************)
(* The event loop.                                                         *)
(***************************************************************************)
\* the loop takes the next handle of the current batch
Dispatch ==
  /\ ~Returned
  /\ running = NoProc
  /\ ntodo > 0
  /\ running' = Head(ready)
  /\ ready' = Tail(ready)
  /\ ntodo' = ntodo - 1
  /\ UNCHANGED <<config, url_queue, work_position, worker, handled_urls,
                 admitted,
                 running_task, completed, start, run, commit, monitor, task>>

\* the batch is over; the next iteration runs what is ready by now
NextIteration ==
  /\ ~Returned
  /\ running = NoProc
  /\ ntodo = 0
  /\ ready # <<>>
  /\ ntodo' = Len(ready)
  /\ UNCHANGED <<config, url_queue, work_position, worker, handled_urls,
                 admitted,
                 running_task, completed, start, run, commit, monitor, task,
                 ready, running>>

(***************************************************************************)
(* Spider._run                                                             *)
(***************************************************************************)
\* _init, add_task(*url), then suspend on the start future (line 281);
\* without that await join() would find nothing recorded and return
RunStart_unlatched ==
  /\ running = RunProc
  /\ run = "init"
  /\ LET S0 == [h |-> handled_urls, q |-> url_queue, w |-> worker,
                m |-> monitor, r |-> Append(ready, CommitProc),
                a |-> admitted]
         S  == add_task(S0, ALLOWED_DOMAIN, urls)
     IN
     /\ handled_urls' = S.h
     /\ admitted' = S.a
     /\ url_queue' = S.q
     /\ worker' = S.w
     /\ monitor' = S.m
     /\ ready' = S.r
  /\ work_position' = SemNew(MAX_WORKER)
  /\ running_task' = QueueNew
  /\ run' = "returned"
  /\ running' = NoProc
  /\ UNCHANGED <<config, completed, start, commit, task, ntodo>>

RunStart ==
  /\ running = RunProc
  /\ run = "init"
  /\ LET S0 == [h |-> handled_urls, q |-> url_queue, w |-> worker,
                m |-> monitor, r |-> Append(ready, CommitProc),
                a |-> admitted]
         S  == add_task(S0, ALLOWED_DOMAIN, urls)
     IN
     /\ handled_urls' = S.h
     /\ admitted' = S.a
     /\ url_queue' = S.q
     /\ worker' = S.w
     /\ monitor' = S.m
     /\ ready' = S.r
  /\ work_position' = SemNew(MAX_WORKER)
  /\ running_task' = QueueNew
  /\ run' = "await_start"
  /\ running' = NoProc
  /\ UNCHANGED <<config, completed, start, commit, task, ntodo>>

\* the start future is done: join() on the record of running tasks
RunJoin ==
  /\ running = RunProc
  /\ run = "await_start"
  /\ IF running_task.unfinished > 0
     THEN /\ run' = "join"
          /\ running_task' = [running_task EXCEPT !.joiners = Append(@, RunProc)]
     ELSE /\ run' = "returned"
          /\ UNCHANGED running_task
  /\ running' = NoProc
  /\ UNCHANGED <<config, url_queue, work_position, worker, handled_urls,
                 admitted,
                 completed, start, commit, monitor, task, ready, ntodo>>

\* join() has been woken: _run logs and returns True
RunReturn ==
  /\ running = RunProc
  /\ run = "join"
  /\ run' = "returned"
  /\ running' = NoProc
  /\ UNCHANGED <<config, url_queue, work_position, worker, handled_urls,
                 admitted,
                 running_task, completed, start, commit, monitor, task,
                 ready, ntodo>>

(***************************************************************************)
(* Spider._task_monitor                                                    *)
(***************************************************************************)
Others == <<config, handled_urls, admitted, completed>>

\* url = await url_queue.get(): suspends while the queue is empty
MonitorGet(i) ==
  /\ running = MonitorProc(i)
  /\ monitor[i].pc \in {"get", "get_wait"}
  /\ LET h == monitor[i].host
         q == url_queue[h]
     IN
     IF q.items = <<>>
     THEN /\ url_queue' = [url_queue EXCEPT ![h].getters = Append(@, MonitorProc(i))]
          /\ monitor' = [monitor EXCEPT ![i].pc = "get_wait"]
          /\ running' = NoProc
     ELSE /\ url_queue' = [url_queue EXCEPT ![h].items = Tail(@)]
          /\ monitor' = [monitor EXCEPT ![i].pc = "worker",
                                        ![i].url = Head(q.items)]
          /\ UNCHANGED running
  /\ UNCHANGED <<Others, work_position, worker, running_task, start, run,
                 commit, task, ready, ntodo>>

\* await worker.acquire()
MonitorWorker_unacquired(i) ==
  /\ running = MonitorProc(i)
  /\ monitor[i].pc = "worker"
  /\ monitor' = [monitor EXCEPT ![i].pc = "position"]
  /\ UNCHANGED <<Others, url_queue, work_position, worker, running_task,
                 start, run, commit, task, ready, ntodo, running>>

MonitorWorker(i) ==
  /\ running = MonitorProc(i)
  /\ monitor[i].pc = "worker"
  /\ LET h == monitor[i].host IN
     IF ~SemLocked(worker[h])
     THEN /\ worker' = [worker EXCEPT ![h].value = @ - 1]
          /\ monitor' = [monitor EXCEPT ![i].pc = "position"]
          /\ UNCHANGED running
     ELSE /\ worker' = [worker EXCEPT ![h] = SemEnqueue(@, MonitorProc(i))]
          /\ monitor' = [monitor EXCEPT ![i].pc = "worker_wait"]
          /\ running' = NoProc
  /\ UNCHANGED <<Others, url_queue, work_position, running_task, start, run,
                 commit, task, ready, ntodo>>

\* worker.acquire() resumes with the permit a release handed over
MonitorWorkerResume(i) ==
  /\ running = MonitorProc(i)
  /\ monitor[i].pc = "worker_wait"
  /\ LET h == monitor[i].host
         r == SemResume(worker[h], MonitorProc(i))
     IN
     /\ worker' = [worker EXCEPT ![h] = r.sem]
     /\ ready' = ready \o r.wake
  /\ monitor' = [monitor EXCEPT ![i].pc = "position"]
  /\ UNCHANGED <<Others, url_queue, work_position, running_task, start, run,
                 commit, task, ntodo, running>>

\* await self._work_position.acquire()
MonitorPosition(i) ==
  /\ running = MonitorProc(i)
  /\ monitor[i].pc = "position"
  /\ IF ~SemLocked(work_position)
     THEN /\ work_position' = [work_position EXCEPT !.value = @ - 1]
          /\ monitor' = [monitor EXCEPT ![i].pc = "spawn"]
          /\ UNCHANGED running
     ELSE /\ work_position' = SemEnqueue(work_position, MonitorProc(i))
          /\ monitor' = [monitor EXCEPT ![i].pc = "position_wait"]
          /\ running' = NoProc
  /\ UNCHANGED <<Others, url_queue, worker, running_task, start, run,
                 commit, task, ready, ntodo>>

MonitorPositionResume(i) ==
  /\ running = MonitorProc(i)
  /\ monitor[i].pc = "position_wait"
  /\ LET r == SemResume(work_position, MonitorProc(i)) IN
     /\ work_position' = r.sem
     /\ ready' = ready \o r.wake
  /\ monitor' = [monitor EXCEPT ![i].pc = "spawn"]
  /\ UNCHANGED <<Others, url_queue, worker, running_task, start, run,
                 commit, task, ntodo, running>>

NoResponse == [code |-> -1, header |-> <<>>, body |-> <<>>]

\* the task object of a coroutine that returned ("done") or raised
Ended(tk, how, rel) ==
  [url |-> tk.url, pc |-> how, response |-> NoResponse, body |-> <<>>,
   released |-> tk.released + rel, invoked |-> tk.invoked, addcalls |-> 0,
   awaits |-> 0, links |-> <<>>]

\* a task created for _download_document(url); released, invoked, addcalls
\* and awaits count what the task has done so far, links is the argument
\* of its handler's latest add_task call; a task that has ended keeps its
\* url, released and invoked, its locals are gone
NewTask(url) ==
  [url |-> url, pc |-> "new", response |-> NoResponse, body |-> <<>>,
   released |-> 0, invoked |-> 0, addcalls |-> 0, awaits |-> 0,
   links |-> <<>>]

\* create_task(_download_document(url)); running_task.put(task); set the
\* start future if it is not done.  Nothing in between suspends.
MonitorSpawn(i) ==
  /\ running = MonitorProc(i)
  /\ monitor[i].pc = "spawn"
  /\ LET p == QueuePut(running_task, Len(task) + 1) IN
     /\ task' = Append(task, NewTask(monitor[i].url))
     /\ running_task' = p.queue
     /\ ready' = (Append(ready, FetchProc(Len(task) + 1)) \o p.wake)
                   \o (IF ~start /\ run = "await_start" THEN <<RunProc>> ELSE <<>>)
  /\ start' = TRUE
  /\ monitor' = [monitor EXCEPT ![i].pc = "get", ![i].url = NoURL]
  /\ UNCHANGED <<Others, url_queue, work_position, worker, run, commit,
                 ntodo, running>>

(***************************************************************************)
(* Spider._commit_task (the supervisor)                                    *)
(***************************************************************************)
Finished(t) == task[t].pc \in {"done", "raised"}

\* task = await self._running_task.get(); if not task.done(): await task
CommitGet_unawaited ==
  /\ running = CommitProc
  /\ commit.pc \in {"get", "get_wait"}
  /\ IF running_task.items = <<>>
     THEN /\ running_task' = [running_task EXCEPT !.getters = Append(@, CommitProc)]
          /\ commit' = [commit EXCEPT !.pc = "get_wait"]
          /\ running' = NoProc
     ELSE LET t == Head(running_task.items) IN
          /\ running_task' = [running_task EXCEPT !.items = Tail(@)]
          /\ commit' = [pc |-> "task_done", task |-> t]
          /\ UNCHANGED running
  /\ UNCHANGED <<Others, url_queue, work_position, worker, start, run,
                 monitor, task, ready, ntodo>>

CommitGet ==
  /\ running = CommitProc
  /\ commit.pc \in {"get", "get_wait"}
  /\ IF running_task.items = <<>>
     THEN /\ running_task' = [running_task EXCEPT !.getters = Append(@, CommitProc)]
          /\ commit' = [commit EXCEPT !.pc = "get_wait"]
          /\ running' = NoProc
     ELSE LET t == Head(running_task.items) IN
          /\ running_task' = [running_task EXCEPT !.items = Tail(@)]
          /\ IF Finished(t)
             THEN /\ commit' = [pc |-> "task_done", task |-> t]
                  /\ UNCHANGED running
             ELSE /\ commit' = [pc |-> "await", task |-> t]
                  /\ running' = NoProc
  /\ UNCHANGED <<Others, url_queue, work_position, worker, start, run,
                 monitor, task, ready, ntodo>>

\* `await task` resumes: the task's exception, if any, is raised here and
\* ends _commit_task
CommitAwaited ==
  /\ running = CommitProc
  /\ commit.pc = "await"
  /\ IF task[commit.task].pc = "raised"
     THEN /\ commit' = [commit EXCEPT !.pc = "dead"]
          /\ running' = NoProc
     ELSE /\ commit' = [commit EXCEPT !.pc = "task_done"]
          /\ UNCHANGED running
  /\ UNCHANGED <<Others, url_queue, work_position, worker, running_task,
                 start, run, monitor, task, ready, ntodo>>

\* self._running_task.task_done()
CommitTaskDone ==
  /\ running = CommitProc
  /\ commit.pc = "task_done"
  /\ LET d == QueueTaskDone(running_task) IN
     /\ running_task' = d.queue
     /\ ready' = ready \o d.wake
  /\ commit' = [commit EXCEPT !.pc = "get"]
  /\ UNCHANGED <<Others, url_queue, work_position, worker, start, run,
                 monitor, task, ntodo, running>>

(***************************************************************************)
(* Response (src/web/response.py).  A header block is what readuntil       *)
(* returned: whether it starts with HTTP, the second token of its first    *)
(* line and the fields of the remaining lines.                             *)
(***************************************************************************)
\* int(): the decimal strings of the model and their values
Decimal == ("0" :> 0) @@ ("3" :> 3) @@ ("200" :> 200) @@ ("404" :> 404)

IsDecimal(s) == s \in DOMAIN Decimal

NoCode == -1

\* b'': _get_response_header caught an exception
NoHeader == [startsHTTP |-> FALSE, status |-> "", fields |-> <<>>, empty |-> TRUE]

HeaderBlock(http, status, fields) ==
  [startsHTTP |-> http, status |-> status, fields |-> fields, empty |-> FALSE]

HeaderBlocks ==
  { HeaderBlock(TRUE, "200", ("Content-Length" :> "3")),
    HeaderBlock(TRUE, "200", <<>>),
    HeaderBlock(TRUE, "200", ("Content-Length" :> "abc")),
    HeaderBlock(TRUE, "404", ("Transfer-Encoding" :> "chunked")
                               @@ ("Content-Encoding" :> "gzip")),
    HeaderBlock(FALSE, "200", ("Content-Length" :> "3")) }

\* Response.__init__ and Response._init_header: every exception is caught,
\* code and header keep their initial values then
Response_lenient(header) ==
  IF IsDecimal(header.status)
  THEN [code |-> Decimal[header.status], header |-> header.fields, body |-> <<>>]
  ELSE [code |-> NoCode, header |-> <<>>, body |-> <<>>]

Response(header) ==
  IF header.startsHTTP /\ IsDecimal(header.status)
  THEN [code |-> Decimal[header.status], header |-> header.fields, body |-> <<>>]
  ELSE [code |-> NoCode, header |-> <<>>, body |-> <<>>]

\* Response.get
get(response, key, default) ==
  IF key \in DOMAIN response.header THEN response.header[key] ELSE default

\* Response.set_body: only a bytes object replaces the body
set_body(response, body) ==
  IF body.bytes THEN [response EXCEPT !.body = body.data] ELSE response

\* the n bytes readexactly(n) delivers
Payload(n) == [i \in 1..n |-> 120]

\* what the network delivers for a body: _get_body and _get_chunk_data
\* return b'' when the read fails
BodiesRead(response) ==
  IF get(response, "Transfer-Encoding", "") = "chunked"
  THEN { <<>>, Payload(2) }
  ELSE LET content_length == Decimal[get(response, "Content-Length", "0")] IN
       { <<>>, Payload(content_length) }

\* what a compressed body decompresses to
Plain == <<104, 105>>

\* lines 350-354 with _gzip_decompress / _deflate_decompress: the payload,
\* or None when decompression fails
Decoded_keeps_raw(response, body) ==
  IF get(response, "Content-Encoding", "") \in {"gzip", "deflate"}
  THEN { [bytes |-> TRUE, data |-> Plain],
         [bytes |-> TRUE, data |-> <<>>],
         [bytes |-> TRUE, data |-> body] }
  ELSE { [bytes |-> TRUE, data |-> body] }

Decoded(response, body) ==
  IF get(response, "Content-Encoding", "") \in {"gzip", "deflate"}
  THEN { [bytes |-> TRUE, data |-> Plain],
         [bytes |-> TRUE, data |-> <<>>],
         [bytes |-> FALSE, data |-> <<>>] }
  ELSE { [bytes |-> TRUE, data |-> body] }

(***************************************************************************)
(* Spider._download_document                                               *)
(***************************************************************************)
\* Spider._task_done: release the host's gate, then the global gate
task_done_twice(url) ==
  LET h  == URLhost(url)
      rw == SemRelease(worker[h])
      rp == SemRelease(work_position)
      rq == SemRelease(rp.sem)
  IN [worker |-> [worker EXCEPT ![h] = rw.sem],
      work_position |-> rq.sem,
      wake |-> (rw.wake \o rp.wake) \o rq.wake]

task_done(url) ==
  LET h  == URLhost(url)
      rw == SemRelease(worker[h])
      rp == SemRelease(work_position)
  IN [worker |-> [worker EXCEPT ![h] = rw.sem],
      work_position |-> rp.sem,
      wake |-> rw.wake \o rp.wake]

\* the callbacks of a task that ends: the supervisor, if it awaits it
WakeAwaiter(t) ==
  IF commit.pc = "await" /\ commit.task = t THEN <<CommitProc>> ELSE <<>>

\* the awaits of a fetch that wait for the network
NetWaits ==
  {"connect", "drain", "readuntil", "body", "close_w", "close_h", "close_b",
   "handler_wait"}

\* the selector reports the event a fetch waits for: its task becomes ready
NetEvent(t) ==
  /\ ~Returned
  /\ running = NoProc
  /\ ntodo = 0
  /\ task[t].pc \in NetWaits
  /\ FetchProc(t) \notin Range(ready)
  /\ ready' = Append(ready, FetchProc(t))
  /\ UNCHANGED <<Others, url_queue, work_position, worker, running_task,
                 start, run, commit, monitor, task, ntodo, running>>

\* first step: _get_connector awaits open_connection
FetchStart(t) ==
  /\ running = FetchProc(t)
  /\ task[t].pc = "new"
  /\ task' = [task EXCEPT ![t].pc = "connect"]
  /\ running' = NoProc
  /\ UNCHANGED <<Others, url_queue, work_position, worker, running_task,
                 start, run, commit, monitor, ready, ntodo>>

\* lines 313-318: no connection -> _task_done and return; otherwise write
\* the request and await drain
FetchConnect(t) ==
  /\ running = FetchProc(t)
  /\ task[t].pc = "connect"
  /\ \E connected \in BOOLEAN :
       IF connected
       THEN /\ task' = [task EXCEPT ![t].pc = "drain"]
            /\ UNCHANGED <<worker, work_position, ready>>
       ELSE LET d == task_done(task[t].url) IN
            /\ worker' = d.worker
            /\ work_position' = d.work_position
            /\ task' = [task EXCEPT ![t] = Ended(@, "done", 1)]
            /\ ready' = (ready \o d.wake) \o WakeAwaiter(t)
  /\ running' = NoProc
  /\ UNCHANGED <<Others, url_queue, running_task, start, run, commit,
                 monitor, ntodo>>

\* lines 318-325: the request is out -> await the header block; otherwise
\* _task_done, close the writer and await wait_closed
FetchSent(t) ==
  /\ running = FetchProc(t)
  /\ task[t].pc = "drain"
  /\ \E flag \in BOOLEAN :
       IF flag
       THEN /\ task' = [task EXCEPT ![t].pc = "readuntil"]
            /\ UNCHANGED <<worker, work_position, ready>>
       ELSE LET d == task_done(task[t].url) IN
            /\ worker' = d.worker
            /\ work_position' = d.work_position
            /\ task' = [task EXCEPT ![t].pc = "close_w", ![t].released = @ + 1]
            /\ ready' = ready \o d.wake
  /\ running' = NoProc
  /\ UNCHANGED <<Others, url_queue, running_task, start, run, commit,
                 monitor, ntodo>>

\* the outcomes of `await writer.wait_closed()`: the connection is closed,
\* or the error the connection was lost with is raised
WaitClosed == {"closed", "raise"}

\* lines 322-323 and 329-330: wait_closed after a failed write or header
\* read; the gates were released before
FetchClosedEarly(t) ==
  /\ running = FetchProc(t)
  /\ task[t].pc \in {"close_w", "close_h"}
  /\ \E out \in WaitClosed :
       task' = [task EXCEPT
                  ![t] = Ended(@, IF out = "closed" THEN "done" ELSE "raised", 0)]
  /\ ready' = ready \o WakeAwaiter(t)
  /\ running' = NoProc
  /\ UNCHANGED <<Others, url_queue, work_position, worker, running_task,
                 start, run, commit, monitor, ntodo>>

\* the result of int(response.get('Content-Length', '0')) is a number
LengthReadable(response) ==
  \/ get(response, "Transfer-Encoding", "") = "chunked"
  \/ IsDecimal(get(response, "Content-Length", "0"))

\* lines 325-339: header block read; build the Response and start reading
\* the body.  int() of a non-decimal Content-Length raises out of the task.
FetchHeader(t) ==
  /\ running = FetchProc(t)
  /\ task[t].pc = "readuntil"
  /\ \E response_header \in HeaderBlocks \cup {NoHeader} :
       IF response_header.empty
       THEN LET d == task_done(task[t].url) IN
            /\ worker' = d.worker
            /\ work_position' = d.work_position
            /\ task' = [task EXCEPT ![t].pc = "close_h", ![t].released = @ + 1]
            /\ ready' = ready \o d.wake
       ELSE LET response == Response(response_header) IN
            /\ IF LengthReadable(response)
               THEN /\ task' = [task EXCEPT ![t].pc = "body",
                                            ![t].response = response]
                    /\ UNCHANGED ready
               ELSE /\ task' = [task EXCEPT ![t] = Ended(@, "raised", 0)]
                    /\ ready' = ready \o WakeAwaiter(t)
            /\ UNCHANGED <<worker, work_position>>
  /\ running' = NoProc
  /\ UNCHANGED <<Others, url_queue, running_task, start, run, commit,
                 monitor, ntodo>>

\* lines 336-343: the body is read (b'' on failure); close the writer and
\* await wait_closed
FetchBody(t) ==
  /\ running = FetchProc(t)
  /\ task[t].pc = "body"
  /\ \E body \in BodiesRead(task[t].response) :
       task' = [task EXCEPT ![t].pc = "close_b", ![t].body = body]
  /\ running' = NoProc
  /\ UNCHANGED <<Others, url_queue, work_position, worker, running_task,
                 start, run, commit, monitor, ready, ntodo>>

\* _get_body and _get_chunk_data returned b'' although bytes were to come:
\* the read may have failed, and the connection may be lost with an error
ReadFailed(response, body) == body = <<>> /\ BodiesRead(response) # {<<>>}

\* line 358: self._completed += 1
count_completed_not(n) == n

count_completed(n) == n + 1

\* lines 343-361: connection closed; an empty body ends the fetch, any
\* other body is decoded, counted and handed to handle_document.  The
\* wait_closed of line 343 raises only what the connection was lost with.
FetchClosed(t) ==
  /\ running = FetchProc(t)
  /\ task[t].pc = "close_b"
  /\ \E out \in IF ReadFailed(task[t].response, task[t].body)
                THEN WaitClosed ELSE {"closed"} :
       IF out = "raise"
       THEN /\ task' = [task EXCEPT ![t] = Ended(@, "raised", 0)]
            /\ ready' = ready \o WakeAwaiter(t)
            /\ running' = NoProc
            /\ UNCHANGED <<worker, work_position, completed>>
       ELSE IF task[t].body = <<>>
       THEN LET d == task_done(task[t].url) IN
            /\ worker' = d.worker
            /\ work_position' = d.work_position
            /\ task' = [task EXCEPT ![t] = Ended(@, "done", 1)]
            /\ ready' = (ready \o d.wake) \o WakeAwaiter(t)
            /\ running' = NoProc
            /\ UNCHANGED completed
       ELSE \E body \in Decoded(task[t].response, task[t].body) :
            /\ task' = [task EXCEPT ![t].pc = "handler",
                                    ![t].response = set_body(@, body),
                                    ![t].body = <<>>,
                                    ![t].invoked = @ + 1]
            /\ completed' = count_completed(completed)
            /\ UNCHANGED <<worker, work_position, ready, running>>
  /\ UNCHANGED <<config, handled_urls, admitted, url_queue, running_task,
                 start, run, commit, monitor, ntodo>>

(***************************************************************************)
(* Spider.handle_document, the embedder's extension point: it may call     *)
(* add_task, may await, and returns or raises an Exception.                *)
(***************************************************************************)
HandlerAddTask(t) ==
  /\ running = FetchProc(t)
  /\ task[t].pc = "handler"
  /\ task[t].addcalls < MaxAddCalls
  /\ \E links \in LinkLists :
       LET S0 == [h |-> handled_urls, q |-> url_queue, w |-> worker,
                  m |-> monitor, r |-> ready, a |-> admitted]
           S  == add_task(S0, ALLOWED_DOMAIN, links)
       IN
       /\ handled_urls' = S.h
       /\ admitted' = S.a
       /\ url_queue' = S.q
       /\ worker' = S.w
       /\ monitor' = S.m
       /\ ready' = S.r
       /\ task' = [task EXCEPT ![t].addcalls = @ + 1, ![t].links = links]
  /\ UNCHANGED <<config, completed, work_position, running_task, start, run,
                 commit, ntodo, running>>

HandlerAwait(t) ==
  /\ running = FetchProc(t)
  /\ task[t].pc = "handler"
  /\ task[t].awaits < MaxHandlerAwaits
  /\ task' = [task EXCEPT ![t].pc = "handler_wait", ![t].awaits = @ + 1]
  /\ running' = NoProc
  /\ UNCHANGED <<Others, url_queue, work_position, worker, running_task,
                 start, run, commit, monitor, ready, ntodo>>

HandlerResume(t) ==
  /\ running = FetchProc(t)
  /\ task[t].pc = "handler_wait"
  /\ task' = [task EXCEPT ![t].pc = "handler"]
  /\ UNCHANGED <<Others, url_queue, work_position, worker, running_task,
                 start, run, commit, monitor, ready, ntodo, running>>

\* lines 360-365: how the fetch goes on when the handler call has ended;
\* `except Exception` catches what the handler raised
AfterHandler_uncaught(raised) ==
  IF raised THEN [pc |-> "raised", release |-> FALSE]
  ELSE [pc |-> "done", release |-> TRUE]

AfterHandler(raised) == [pc |-> "done", release |-> TRUE]

\* lines 360-365: the handler returned or raised; _task_done and the task
\* ends
HandlerEnd(t) ==
  /\ running = FetchProc(t)
  /\ task[t].pc = "handler"
  /\ \E raised \in BOOLEAN :
       LET a == AfterHandler(raised)
           d == task_done(task[t].url)
       IN
       IF a.release
       THEN /\ worker' = d.worker
            /\ work_position' = d.work_position
            /\ task' = [task EXCEPT ![t] = Ended(@, a.pc, 1)]
            /\ ready' = (ready \o d.wake) \o WakeAwaiter(t)
       ELSE /\ task' = [task EXCEPT ![t] = Ended(@, a.pc, 0)]
            /\ ready' = ready \o WakeAwaiter(t)
            /\ UNCHANGED <<worker, work_position>>
  /\ running' = NoProc
  /\ UNCHANGED <<Others, url_queue, running_task, start, run, commit,
                 monitor, ntodo>>

Next ==
  \/ Dispatch
  \/ NextIteration
  \/ RunStart
  \/ RunJoin
  \/ RunReturn
  \/ \E i \in 1..Len(monitor) : MonitorGet(i)
  \/ \E i \in 1..Len(monitor) : MonitorWorker(i)
  \/ \E i \in 1..Len(monitor) : MonitorWorkerResume(i)
  \/ \E i \in 1..Len(monitor) : MonitorPosition(i)
  \/ \E i \in 1..Len(monitor) : MonitorPositionResume(i)
  \/ \E i \in 1..Len(monitor) : MonitorSpawn(i)
  \/ CommitGet
  \/ CommitAwaited
  \/ CommitTaskDone
  \/ \E t \in 1..Len(task) : NetEvent(t)
  \/ \E t \in 1..Len(task) : FetchStart(t)
  \/ \E t \in 1..Len(task) : FetchConnect(t)
  \/ \E t \in 1..Len(task) : FetchSent(t)
  \/ \E t \in 1..Len(task) : FetchClosedEarly(t)
  \/ \E t \in 1..Len(task) : FetchHeader(t)
  \/ \E t \in 1..Len(task) : FetchBody(t)
  \/ \E t \in 1..Len(task) : FetchClosed(t)
  \/ \E t \in 1..Len(task) : HandlerAddTask(t)
  \/ \E t \in 1..Len(task) : HandlerAwait(t)
  \/ \E t \in 1..Len(task) : HandlerResume(t)
  \/ \E t \in 1..Len(task) : HandlerEnd(t)

Spec == Init /\ [][Next]_vars

\* the loop runs whatever is ready, and every network operation and every
\* handler call eventually completes or fails
FairSpec == Spec /\ WF_vars(Next)

(***************************************************************************)
(* Properties                                                              *)
(***************************************************************************)
Tasks == 1..Len(task)

Hosts == DOMAIN url_queue

\* fetch tasks that were spawned and have not returned or raised
Live == { t \in Tasks : ~Finished(t) }

LiveOn(h) == { t \in Live : URLhost(task[t].url) = h }

\* C1: at every instant at most MAX_WORKER fetch tasks are live, a task that
\* waits for its connection to close after a failed write or header read
\* included
C1_LiveAtMostMaxWorker == Cardinality(Live) <= MAX_WORKER

\* C2: at every instant at most WORKER_DOMAIN fetch tasks of one host are
\* live
C2_LivePerHostAtMostWorkerDomain ==
  \A h \in Hosts : Cardinality(LiveOn(h)) <= WORKER_DOMAIN

\* the URLs that wait in a queue, are held by a monitor or belong to a task
Enqueued ==
  UNION { Range(url_queue[h].items) : h \in Hosts }
    \cup { monitor[i].url : i \in { j \in 1..Len(monitor) : monitor[j].url # NoURL } }
    \cup { task[t].url : t \in Tasks }

\* C3: no URL gets a second fetch task, every URL that was enqueued has its
\* digest in the seen set, and the seen set only grows
C3_AtMostOneFetchPerURL ==
  /\ [](\A t1, t2 \in Tasks : task[t1].url = task[t2].url => t1 = t2)
  /\ [](\A u \in Enqueued : md5_value(u) \in handled_urls)
  /\ [][handled_urls \subseteq handled_urls']_vars

\* a handler of a2 has submitted URLs again that were submitted before
C3_Resubmitted ==
  \E t \in Tasks :
    /\ task[t].url = a2
    /\ task[t].pc = "handler"
    /\ task[t].addcalls = 1
    /\ \A k \in 1..Len(task[t].links) : md5_value(task[t].links[k]) \in handled_urls
    /\ Len(task) >= 2

\* the allow-list predicate: the list is empty or one of its entries occurs
\* in the host
PassesAllowList(u) ==
  \/ ALLOWED_DOMAIN = <<>>
  \/ \E k \in 1..Len(ALLOWED_DOMAIN), i \in 0..Len(u.host), j \in 0..Len(u.host) :
       i <= j /\ SubSeq(u.host, i + 1, j) = ALLOWED_DOMAIN[k]

Occurrences(seq, u) == Cardinality({ i \in 1..Len(seq) : seq[i] = u })

\* how often u waits in the queue of its host in the function q
QueuedIn(q, u) ==
  IF u.host \in DOMAIN q THEN Occurrences(q[u.host].items, u) ELSE 0

\* the effect of one add_task(*us) call
AddTaskEffect(us) ==
  /\ \A u \in URLs :
       IF u \in Range(us) /\ PassesAllowList(u) /\ md5_value(u) \notin handled_urls
       THEN QueuedIn(url_queue', u) = QueuedIn(url_queue, u) + 1
       ELSE QueuedIn(url_queue', u) = QueuedIn(url_queue, u)
  /\ (\A u \in Range(us) : ~PassesAllowList(u) \/ md5_value(u) \in handled_urls)
       => UNCHANGED <<handled_urls, url_queue, worker, monitor>>

\* C4: add_task enqueues a URL iff it passes the allow-list and its digest
\* is new, a call that rejects all its URLs changes nothing, and no URL
\* that fails the allow-list is ever queued or fetched
C4_AdmittedIffAllowedAndNew ==
  /\ [](\A u \in Enqueued : PassesAllowList(u))
  /\ [][(run = "init" /\ run' # "init") => AddTaskEffect(urls)]_vars
  /\ [][\A t \in Tasks :
          task'[t].addcalls = task[t].addcalls + 1 => AddTaskEffect(task'[t].links)]_vars

\* c1 was submitted under an allow-list it fails while other URLs were
\* admitted and fetched
C4_RejectedAndAdmitted ==
  /\ ALLOWED_DOMAIN # <<>>
  /\ c1 \in Range(urls)
  /\ Len(task) = 3
  /\ \E t \in Tasks : task[t].addcalls = 1 /\ c1 \in Range(task[t].links)

\* C5: when _run has passed join() and returned True, every per-host queue
\* is empty and no fetch task is live
C5_ReturnedMeansDrained ==
  Returned => /\ \A h \in Hosts : url_queue[h].items = <<>>
              /\ Live = {}

\* C6: when _run has returned True, every admitted URL has a fetch task
\* that has finished
C6_ReturnedMeansAllFetched ==
  Returned =>
    \A u \in URLs :
      md5_value(u) \in handled_urls
        => \E t \in Tasks : task[t].url = u /\ Finished(t)

\* C7: _run eventually returns, whatever the seeds
C7_RunReturns == <>Returned

\* C8: a fetch whose request write or header read failed has released its
\* gates once and ends without raising
C8_FailureHandledInFetch ==
  /\ [](\A t \in Tasks :
          task[t].pc \in {"close_w", "close_h"} => task[t].released = 1)
  /\ [][\A t \in Tasks :
          task[t].pc \in {"close_w", "close_h"}
            => /\ task'[t].pc \in {task[t].pc, "done"}
               /\ task'[t].released = 1]_vars

\* C9: a fetch that has received its header block goes on to read the body
\* (of length 0 when Content-Length is absent or not a number) or handles
\* the failed read; it never ends by raising at that point
C9_UnreadableLengthIsZero ==
  [][\A t \in Tasks :
       (task[t].pc = "readuntil" /\ task'[t].pc # "readuntil")
         => task'[t].pc \in {"body", "close_h"}]_vars

\* fetches whose handler call has started and not ended
InHandler == { t \in Tasks : task[t].pc \in {"handler", "handler_wait"} }

\* C10: a fetch releases its gates only after its handler call has ended, a
\* handler that raises does not end the task abnormally nor keep the gates,
\* and while a handler runs or is suspended its fetch holds a permit of the
\* global gate and of its host's gate
C10_ReleaseAfterHandler ==
  /\ [](\A t \in InHandler : task[t].released = 0)
  /\ [](Cardinality(InHandler) <= MAX_WORKER - work_position.value)
  /\ [](\A h \in Hosts :
          Cardinality({ t \in InHandler : URLhost(task[t].url) = h })
            <= WORKER_DOMAIN - worker[h].value)
  /\ [][\A t \in Tasks :
          (task[t].pc = "handler" /\ Finished(t)')
            => task'[t].pc = "done" /\ task'[t].released = 1]_vars

\* two handlers are suspended at once and a third fetch has ended after
\* its handler call
C10_HandlerSuspended ==
  \E t1, t2, t3 \in Tasks :
    /\ t1 # t2
    /\ task[t1].pc = "handler_wait" /\ task[t2].pc = "handler_wait"
    /\ task[t3].pc = "done" /\ task[t3].invoked = 1 /\ task[t3].released = 1

\* the URLs of host h in the order add_task queued them
AdmittedOn(h) == SelectSeq(admitted, LAMBDA u : URLhost(u) = h)

\* the URLs of host h in the order they leave the host's queue: those with
\* a fetch task in spawn order, the one a monitor holds, those still queued
PipelineOn(h) ==
  LET spawned == SelectSeq([t \in Tasks |-> task[t].url],
                           LAMBDA u : URLhost(u) = h)
      held == SelectSeq([i \in 1..Len(monitor) |-> monitor[i].url],
                        LAMBDA u : u # NoURL /\ URLhost(u) = h)
  IN (spawned \o held) \o url_queue[h].items

\* C11: within one host the fetch tasks are spawned in the order in which
\* the URLs were admitted: a URL that has a fetch task is preceded, in
\* spawn order, by the task of every URL of its host admitted before it,
\* whoever admitted them (the seeds or a handler)
C11_SpawnedInAdmissionOrder ==
  /\ \A h \in Hosts : AdmittedOn(h) = PipelineOn(h)
  /\ \A t2 \in Tasks, i, j \in 1..Len(admitted) :
       (i < j /\ admitted[j] = task[t2].url
              /\ URLhost(admitted[i]) = URLhost(admitted[j]))
         => \E t1 \in Tasks : t1 < t2 /\ task[t1].url = admitted[i]

\* a handler admitted a2 while a1, of the same host, was being fetched, and
\* both have their fetch task; two URLs of one host were seeds as well
C11_TwoOfOneHostSpawned ==
  /\ \E t1, t2 \in Tasks : t1 < t2 /\ task[t1].url = a1 /\ task[t2].url = a2
  /\ a2 \notin Range(urls)

\* the monitors that serve host h
MonitorsOf(h) == { i \in 1..Len(monitor) : monitor[i].host = h }

\* C12: a host has a queue iff it has a gate of its own and exactly one
\* monitor; the three come into being with the first URL admitted for the
\* host, none of them is ever removed, and later admissions for the host,
\* from whatever add_task call, start no second monitor
C12_QueueGateMonitorTogether ==
  /\ [](DOMAIN url_queue = DOMAIN worker)
  /\ [](Hosts = { URLhost(u) : u \in Range(admitted) })
  /\ [](\A h \in Hosts : Cardinality(MonitorsOf(h)) = 1)
  /\ [](\A i \in 1..Len(monitor) : monitor[i].host \in Hosts)
  /\ [][/\ DOMAIN url_queue \subseteq DOMAIN url_queue'
        /\ DOMAIN worker \subseteq DOMAIN worker'
        /\ Len(monitor) <= Len(monitor')
        /\ \A i \in 1..Len(monitor) : monitor'[i].host = monitor[i].host]_vars

\* a handler admitted a2 for a host that had its queue, empty by then, its
\* gate and its monitor from the seed a1, next to another host
C12_LaterAdmissionOnKnownHost ==
  /\ urls = <<a1, a1>>
  /\ a2 \in Range(admitted)
  /\ Cardinality(Hosts) >= 2
  /\ \E t \in Tasks : task[t].url = a2

\* fetch t has read its response completely (a header block with a status
\* code and every byte of the body it announces) and its connection closes
\* without error
ReadComplete(t) ==
  /\ task[t].pc = "close_b"
  /\ task[t].response.code # NoCode
  /\ ~ReadFailed(task[t].response, task[t].body)

\* C13: a fetch that has read a complete response hands it to the handler
\* once and counts it in completed, whatever the status code and also when
\* the body is empty
C13_CompleteResponseDelivered ==
  [][\A t \in Tasks :
       (ReadComplete(t) /\ task'[t].pc # "close_b")
         => /\ task'[t].pc = "handler"
            /\ task'[t].invoked = 1
            /\ completed' = completed + 1]_vars

\* the handler calls that fetch tasks 1..n have started
RECURSIVE InvokedUpTo(_)
InvokedUpTo(n) == IF n = 0 THEN 0 ELSE InvokedUpTo(n - 1) + task[n].invoked

\* C14: completed never decreases, only a fetch that is about to call the
\* handler changes it, by one, it equals the number of handler calls
\* started so far, and a fetch that fails to connect, to write, to read the
\* header block or the body leaves it as it is
C14_CompletedCountsHandlerCalls ==
  /\ [](completed = InvokedUpTo(Len(task)))
  /\ [][completed' >= completed]_vars
  /\ [][completed' # completed
          => /\ completed' = completed + 1
             /\ \E t \in Tasks : /\ task[t].pc = "close_b"
                                 /\ task'[t].pc = "handler"
                                 /\ task'[t].invoked = task[t].invoked + 1]_vars
  /\ [][\A t \in Tasks :
          (task[t].pc \in {"connect", "drain", "readuntil", "body", "close_w",
                           "close_h"} /\ task'[t] # task[t])
            => completed' = completed]_vars

\* two handler calls were counted and another fetch has ended without one
C14_CountedAndFailed ==
  /\ completed = 2
  /\ \E t \in Tasks : Finished(t) /\ task[t].invoked = 0

\* the response of fetch t announces a gzip or deflate body
Compressed(t) ==
  get(task[t].response, "Content-Encoding", "") \in {"gzip", "deflate"}

\* C15: a fetch that has read a non-empty gzip or deflate body calls the
\* handler whether or not the body can be decompressed: the response it
\* hands over has the status code of the header block and, as body, the
\* decompressed payload or, when decompression failed, the empty body,
\* never the raw bytes; the call is counted in completed, and the gates
\* are released once when the handler call has ended
C15_UndecodableBodyDelivered ==
  /\ [][\A t \in Tasks :
          (/\ task[t].pc = "close_b"
           /\ task[t].body # <<>>
           /\ Compressed(t)
           /\ task'[t].pc # "close_b")
            => /\ task'[t].pc = "handler"
               /\ task'[t].response.code = task[t].response.code
               /\ task'[t].response.header = task[t].response.header
               /\ task'[t].response.body \in {<<>>, Plain}
               /\ task'[t].response.body # task[t].body
               /\ task'[t].invoked = 1
               /\ task'[t].released = 0
               /\ completed' = completed + 1]_vars
  /\ [][\A t \in Tasks :
          (/\ task[t].pc = "handler"
           /\ Compressed(t)
           /\ task[t].response.body = <<>>
           /\ task'[t].pc \notin {"handler", "handler_wait"})
            => task'[t].pc = "done" /\ task'[t].released = 1]_vars

\* the handler has been called with a 404 response whose gzip body was not
\* decompressed: its body is empty
C15_EmptyBodyInHandler ==
  \E t \in Tasks :
    /\ task[t].pc = "handler"
    /\ Compressed(t)
    /\ task[t].response.code = 404
    /\ task[t].response.body = <<>>
    /\ task[t].invoked = 1
    /\ completed >= 1

\* a release has handed process p a permit of semaphore s that p, still
\* suspended in acquire(), has not picked up
Handed(s, p) ==
  \E k \in 1..Len(s.waiters) : s.waiters[k].who = p /\ s.waiters[k].done

\* monitor i holds a permit of its host's gate for the URL it is about to
\* spawn
HoldsHost(i) ==
  \/ monitor[i].pc \in {"position", "position_wait", "spawn"}
  \/ /\ monitor[i].pc = "worker_wait"
     /\ Handed(worker[monitor[i].host], MonitorProc(i))

\* monitor i holds a permit of the global gate
HoldsGlobal(i) ==
  \/ monitor[i].pc = "spawn"
  \/ monitor[i].pc = "position_wait" /\ Handed(work_position, MonitorProc(i))

\* fetch tasks that have not released the gates
Unreleased == { t \in Tasks : task[t].released = 0 }

\* C16: a monitor takes the permit of its host's gate before that of the
\* global gate.  The permits missing from a gate are those of the monitors
\* that hold one and of the fetch tasks that have not released; a monitor
\* that holds a global permit holds its host's permit and the URL; once it
\* has the global permit it spawns and records the fetch task without
\* being suspended; it may wait for the global gate with the host's permit
\* in hand, and never waits for the host's gate with a global permit
C16_HostGateBeforeGlobalGate ==
  /\ [](run # "init" =>
          MAX_WORKER - work_position.value
            = Cardinality({ i \in 1..Len(monitor) : HoldsGlobal(i) })
                + Cardinality(Unreleased))
  /\ [](\A h \in Hosts :
          WORKER_DOMAIN - worker[h].value
            = Cardinality({ i \in MonitorsOf(h) : HoldsHost(i) })
                + Cardinality({ t \in Unreleased : URLhost(task[t].url) = h }))
  /\ [](\A i \in 1..Len(monitor) :
          HoldsGlobal(i) => HoldsHost(i) /\ monitor[i].url # NoURL)
  /\ [](\A i \in 1..Len(monitor) :
          monitor[i].pc \in {"worker", "worker_wait"} => ~HoldsGlobal(i))
  /\ [](\A i \in 1..Len(monitor) :
          monitor[i].pc = "spawn" => running = MonitorProc(i))
  /\ [][\A i \in 1..Len(monitor) :
          monitor[i].pc = "spawn"
            => /\ task' = Append(task, NewTask(monitor[i].url))
               /\ running_task'.items = Append(running_task.items, Len(task'))
               /\ monitor'[i].pc = "get"]_vars

\* a monitor waits for the global gate, all of whose permits are out, with
\* the permit of its host's gate in hand
C16_WaitsForGlobalWithHostPermit ==
  \E i \in 1..Len(monitor) :
    /\ monitor[i].pc = "position_wait"
    /\ ~Handed(work_position, MonitorProc(i))
    /\ work_position.value = 0
    /\ worker[monitor[i].host].value = WORKER_DOMAIN - 1

\* how often _run is scheduled or running
RunScheduled ==
  Occurrences(ready, RunProc) + (IF running = RunProc THEN 1 ELSE 0)

\* C17: the start latch is one-shot.  It is unset as long as no fetch task
\* has been spawned, it is set in the step that spawns and records the
\* first one, it is never reset, setting it wakes _run once, and _run has
\* not gone on to join() on the record of running tasks, let alone
\* returned, while it is unset
C17_StartLatchOneShot ==
  /\ [](start <=> Len(task) > 0)
  /\ [][start => start']_vars
  /\ [][(~start /\ start')
          => /\ Len(task') = 1
             /\ running_task'.items = <<1>>
             /\ running_task'.unfinished = 1]_vars
  /\ [](~start => run \in {"init", "await_start"})
  /\ []((run = "await_start" /\ ~start) => RunScheduled = 0)
  /\ []((run = "await_start" /\ start) => RunScheduled = 1)

\* the latch is set and _run, woken by it, has not resumed yet, while a
\* second fetch task has been spawned
C17_LatchSetRunNotResumed ==
  /\ start
  /\ run = "await_start"
  /\ Len(task) = 2

\* fetch t has built its Response from a header block that gave no status
\* code
Unparsed(t) ==
  task[t].pc \in {"body", "close_b"} /\ task[t].response.code = NoCode

\* C18: a header block that does not start with HTTP makes a Response
\* without status code and without header fields, whatever follows the
\* first token, and building it raises nothing; the fetch reads a body of
\* length 0, closes the connection, releases both gates once and returns
\* without calling the handler or counting in completed
C18_NotHTTPEndsQuietly ==
  /\ [](\A header \in HeaderBlocks :
          ~header.startsHTTP
            => /\ Response(header) = [code |-> NoCode, header |-> <<>>,
                                      body |-> <<>>]
               /\ LengthReadable(Response(header))
               /\ BodiesRead(Response(header)) = {<<>>})
  /\ [](\A t \in Tasks :
          Unparsed(t) => /\ task[t].response.header = <<>>
                         /\ task[t].body = <<>>
                         /\ task[t].released = 0
                         /\ task[t].invoked = 0)
  /\ [][\A t \in Tasks :
          (Unparsed(t) /\ task[t].pc = "body" /\ task'[t].pc # "body")
            => Unparsed(t)' /\ task'[t].pc = "close_b"]_vars
  /\ [][\A t \in Tasks :
          (Unparsed(t) /\ task[t].pc = "close_b" /\ task'[t].pc # "close_b")
            => /\ task'[t].pc = "done"
               /\ task'[t].released = 1
               /\ task'[t].invoked = 0
               /\ completed' = completed]_vars

\* a fetch has read a header block that does not start with HTTP and a
\* body of length 0 and waits for its connection to close
C18_NotHTTPHeaderRead ==
  \E t \in Tasks :
    /\ Unparsed(t)
    /\ task[t].pc = "close_b"
    /\ task[t].released = 0
    /\ ~ReadFailed(task[t].response, task[t].body)

\* C19: no gate ever holds more free permits than it was created with.
\* Only a fetch task adds a permit to a gate, it does so once, on
\* whichever path it returns, to the global gate and to the gate of its
\* host, and the permits it gives back are those its monitor took for it
C19_GatesNeverOverfilled ==
  /\ [](work_position.value <= MAX_WORKER)
  /\ [](\A h \in Hosts : worker[h].value <= WORKER_DOMAIN)
  /\ [](\A t \in Tasks : task[t].released <= 1)
  /\ [][\A t \in Tasks :
          task'[t].released # task[t].released
            => /\ task[t].released = 0 /\ task'[t].released = 1
               /\ work_position' = SemRelease(work_position).sem
               /\ \A h \in Hosts :
                    worker'[h] = IF h = URLhost(task[t].url)
                                 THEN SemRelease(worker[h]).sem
                                 ELSE worker[h]]_vars
  /\ [][(run # "init" /\ work_position'.value > work_position.value)
          => \E t \in Tasks : task'[t].released = task[t].released + 1]_vars
  /\ [][\A h \in Hosts :
          worker'[h].value > worker[h].value
            => \E t \in Tasks : /\ URLhost(task[t].url) = h
                                /\ task'[t].released = task[t].released + 1]_vars

\* fetches have returned on different paths, one after its handler call
\* and one without, and every permit is back in its gate
C19_AllPermitsBack ==
  /\ \E t1, t2 \in Tasks :
       /\ task[t1].pc = "done" /\ task[t1].invoked = 1 /\ task[t1].released = 1
       /\ task[t2].pc = "done" /\ task[t2].invoked = 0 /\ task[t2].released = 1
  /\ work_position.value = MAX_WORKER
  /\ \A h \in Hosts : worker[h].value = WORKER_DOMAIN

\* the fetch tasks the supervisor has marked done: it takes them from the
\* record one by one and marks each before it takes the next
MarkedDone ==
  IF commit.pc \in {"get", "get_wait"} THEN commit.task ELSE commit.task - 1

\* C20: the supervisor confirms the fetch tasks in spawn order and marks a
\* task done only when it has finished; the count of unconfirmed tasks of
\* the record of running tasks is the number of tasks recorded minus the
\* number marked done, it is at least the number of live fetch tasks, and
\* it is zero only if no recorded fetch task is live
C20_ConfirmedInSpawnOrder ==
  /\ [](commit.pc = "task_done" => Finished(commit.task))
  /\ [](\A t \in 1..MarkedDone : Finished(t))
  /\ [](running_task.unfinished = Len(task) - MarkedDone)
  /\ [](running_task.unfinished >= Cardinality(Live))
  /\ [](running_task.unfinished = 0 => Live = {})
  /\ [][commit'.task \in {commit.task, commit.task + 1}]_vars
  /\ [][running_task'.unfinished < running_task.unfinished
          => /\ commit.pc = "task_done"
             /\ MarkedDone' = MarkedDone + 1]_vars

\* the supervisor is about to mark the second fetch task done while a
\* third one is live
C20_MarksSecondWhileThirdLive ==
  /\ commit.pc = "task_done"
  /\ commit.task = 2
  /\ Live # {}
  /\ running_task.unfinished >= 2

====
